---- MODULE Spec2Model ----
(***************************************************************************)
(* Model of the incremental vector-indexing and retrieval subsystem:       *)
(*   backend/services/vector_store.py  (ChromaVectorStore, loaders,        *)
(*                                      chunker, fingerprint)              *)
(*   backend/agents/internal_vector_agent.py (InternalVectorAgent)         *)
(*                                                                         *)
(* A file on disk is identified by its path and its stamp, the pair        *)
(* (st_mtime_ns, st_size) that file_fingerprint reads.  The content of a   *)
(* file is a function of path and stamp (ContentOf): a change of content   *)
(* changes the stamp, and a stamp that returns to an earlier value brings  *)
(* the earlier content back.  Text is a sequence of atoms; the splitter    *)
(* yields one part per atom.                                               *)
(***************************************************************************)
EXTENDS Integers, Sequences, FiniteSets, TLC

\* ------------------------------------------------------------------ bounds
MaxStamp == 2
MaxTopK == 2
MaxPages == 3
MaxSteps == 7
MaxSessions == 2
MaxOdd == 2

\* --------------------------------------------------------------- constants
\* config.py: SUPPORTED_EXTS
SUPPORTED_EXTS == {".pdf", ".txt", ".md"}

\* The files that may exist under DATA_DIR, with their extensions.
AllPaths == {"a.txt", "b.pdf", "c.doc"}

Splitext(path) ==
    CASE path = "a.txt" -> ".txt"
      [] path = "b.pdf" -> ".pdf"
      [] OTHER -> ".doc"

SupportedPaths == {p \in AllPaths : Splitext(p) \in SUPPORTED_EXTS}

Stamps == 1..MaxStamp

\* A file that does not exist.
Absent == 0

\* The pages of a file at a stamp: a sequence of page texts, a page text a
\* sequence of atoms (<<>> is a page with no extractable text).
Variants ==
    << << <<"x">> >>,
       << <<"y">>, <<>>, <<"z">> >>,
       << <<>> >> >>

ContentOf(path, stamp) ==
    LET off == IF path = "a.txt" THEN 1 ELSE 0
    IN  Variants[((stamp + off - 1) % 3) + 1]

\* ------------------------------------------------------------ pure helpers
\* file_fingerprint: sha256 of "path|mtime_ns|size", an injective pairing.
file_fingerprint(path, stamp) == <<path, stamp>>

RECURSIVE Flatten(_)
Flatten(pages) ==
    IF pages = <<>> THEN <<>> ELSE Head(pages) \o Flatten(Tail(pages))

\* str.strip() of a text is empty
IsBlank(text) == \A i \in 1..Len(text) : text[i] = " "

\* A page whose extract_text raises; in a text file, text for which open or
\* read raises.
Damaged == <<"#">>

\* The loop over reader.pages: the exception of a damaged page leaves the
\* loop, and out is returned as far as it was filled.
RECURSIVE PdfBlocks(_, _)
PdfBlocks(pages, i) ==
    IF i > Len(pages) \/ pages[i] = Damaged THEN <<>>
    ELSE (IF IsBlank(pages[i]) THEN <<>>
          ELSE << [page |-> i, text |-> pages[i]] >>) \o PdfBlocks(pages, i + 1)

read_text_from_pdf(pages) == PdfBlocks(pages, 1)

read_text_from_txt(pages) ==
    LET text == Flatten(pages)
    IN  IF (\E i \in 1..Len(pages) : pages[i] = Damaged) \/ IsBlank(text) THEN <<>>
        ELSE << [page |-> 1, text |-> text] >>

load_file_blocks(path, pages) ==
    LET ext == Splitext(path)
    IN  CASE ext = ".pdf" -> read_text_from_pdf(pages)
          [] ext = ".txt" -> read_text_from_txt(pages)
          [] ext = ".md"  -> read_text_from_txt(pages)
          [] OTHER -> <<>>

\* RecursiveCharacterTextSplitter.split_text: one part per atom.
split_text(text) == [i \in 1..Len(text) |-> <<text[i]>>]

RECURSIVE PartChunks(_, _, _, _)
PartChunks(parts, idx, page, file_meta) ==
    IF idx >= Len(parts) THEN <<>>
    ELSE (IF IsBlank(parts[idx + 1]) THEN <<>>
          ELSE << [text |-> parts[idx + 1],
                   metadata |-> [doc_id |-> file_meta.doc_id,
                                 file_path |-> file_meta.file_path,
                                 page |-> page,
                                 chunk_index |-> idx]] >>)
         \o PartChunks(parts, idx + 1, page, file_meta)

RECURSIVE chunk_blocks(_, _)
chunk_blocks(blocks, file_meta) ==
    IF blocks = <<>> THEN <<>>
    ELSE PartChunks(split_text(Head(blocks).text), 0, Head(blocks).page, file_meta)
         \o chunk_blocks(Tail(blocks), file_meta)

\* The id without the position of the chunk in its page.
ChunkIdNoIndex(fp, ch) == <<fp, ch.metadata.page>>

\* cid = f"{fp}_{page}_{chunk_index}"
ChunkId(fp, ch) == <<fp, ch.metadata.page, ch.metadata.chunk_index>>

Range(s) == {s[i] : i \in 1..Len(s)}

\* The rows handed to collection.add for a file.
Rows(fp, chunks) ==
    {[id |-> ChunkId(fp, ch), text |-> ch.text, metadata |-> ch.metadata] :
        ch \in Range(chunks)}

Ids(coll) == {v.id : v \in coll}

\* The chunks of the file at path with the given stamp.
FileChunks(path, stamp) ==
    LET fp == file_fingerprint(path, stamp)
    IN  chunk_blocks(load_file_blocks(path, ContentOf(path, stamp)),
                     [doc_id |-> fp, file_path |-> path])

\* dict.get(path) when the key is missing
None == [fingerprint |-> <<>>, chunks |-> 0]

EmptyMap == [p \in AllPaths |-> None]

\* --------------------------------------------------------------- the state
VARIABLES
    files,       \* path -> stamp of the file under DATA_DIR, Absent if none
    collection,  \* the Chroma collection: a set of rows [id, text, metadata]
    recordFile,  \* <collection>_index.json: [state, map]
    pc,          \* position of ingest_directory: idle, walking, delete, embed
    todo,        \* files of os.walk not yet visited
    cur,         \* the file being ingested (pc is delete or embed)
    index,       \* the in-memory dict loaded by _load_index
    counts,      \* added_docs, updated_docs, added_chunks, skipped
    outcome,     \* how the last sweep ended: none, running, returned, raised
    summary,     \* the dict the last sweep returned
    status,      \* per path, the branch the current sweep took for it
    lastAdd,     \* the ids handed to collection.add by the last step
    changed,     \* paths written or removed since the last sweep ended
    dirty,       \* no sweep has completed yet, or since the last one that did
                 \* a sweep was aborted or the record file was lost
    collAtStart, \* the collection as the current sweep found it
    result,      \* the last retrieval call and what it gave (the arguments
                 \* are kept for a call that returned)
    dirExists,   \* DATA_DIR exists
    embedCalls,  \* get_embedding calls made by the sweep in progress
    report,      \* what the last run of ingest.py main logged
    loaded,      \* the last call of load_file_blocks and what it gave
    interrupted, \* the file whose update the process died in, when the
                 \* process has just restarted (NoPath otherwise)
    sessions,    \* SessionManager.sessions: session id -> session dict
    resp,        \* the request the server answered last and its response
    web          \* the last direct call of web_search and what it gave

vars == <<files, collection, recordFile, pc, todo, cur, index, counts, outcome,
          summary, status, lastAdd, changed, dirty, collAtStart,
          result, dirExists, embedCalls, report, loaded, interrupted,
          sessions, resp, web>>

\* The state of the web application, and the state of the store.
appVars == <<sessions, resp, web>>

storeVars == <<files, collection, recordFile, pc, todo, cur, index, counts, outcome,
               summary, status, lastAdd, changed, dirty, collAtStart, result,
               dirExists, embedCalls, report, loaded, interrupted>>

ZeroCounts == [added_docs |-> 0, updated_docs |-> 0, added_chunks |-> 0, skipped |-> 0]

NoStatus == [p \in AllPaths |-> "none"]

NoResult == [call |-> "none", query |-> <<>>, top_k |-> 0, n_results |-> 0,
             raised |-> FALSE, out |-> <<>>]

NoPath == ""

NoReport == [level |-> "none", added |-> 0, updated |-> 0, skipped |-> 0]

NoLoad == [path |-> NoPath, pages |-> <<>>, raised |-> FALSE, logged |-> FALSE,
           blocks |-> <<>>]

\* A value of plan['steps']: a list of steps (each a mapping with a query,
\* "q", a mapping whose query is missing or blank, "blank", or something that
\* is not a mapping, "bad"), or a value that is not a list.
NoSteps == [list |-> TRUE, items |-> <<>>]

\* A plan as the execute endpoint may find it: nothing (kind none), a string
\* (valid JSON or not, inner the kind of what it decodes to), a value that is
\* not a mapping (kind list), or a mapping with or without topic and steps.
NoPlan == [kind |-> "none", valid |-> FALSE, inner |-> "none", topic |-> FALSE,
           has_steps |-> FALSE, steps |-> NoSteps]

\* self.sessions[session_id] = {}
EmptySession == [plan |-> NoPlan]

NoResp == [endpoint |-> "none", cookie |-> 0, sid |-> 0, status |-> 0, plan |-> NoPlan,
           from_session |-> FALSE, log |-> <<>>, sources |-> 0, synthesized |-> FALSE]

NoWeb == [called |-> FALSE, failed |-> FALSE, raised |-> FALSE, out |-> <<>>]

\* ChromaVectorStore.__init__ on a fresh persist_dir: an empty collection and
\* no sidecar file; the corpus directory holds any of the supported files and
\* one file of another kind.
Init ==
    /\ files \in {f \in [AllPaths -> {Absent} \cup {1}] :
                     \A p \in AllPaths \ SupportedPaths : f[p] = 1}
    /\ collection = {}
    /\ recordFile = [state |-> "missing", map |-> EmptyMap]
    /\ pc = "idle"
    /\ todo = {}
    /\ cur = NoPath
    /\ index = EmptyMap
    /\ counts = ZeroCounts
    /\ outcome = "none"
    /\ summary = ZeroCounts
    /\ status = NoStatus
    /\ lastAdd = {}
    /\ changed = {}
    /\ dirty = TRUE
    /\ collAtStart = {}
    /\ result = NoResult
    /\ dirExists = TRUE
    /\ embedCalls = 0
    /\ report = NoReport
    /\ loaded = NoLoad
    /\ interrupted = NoPath
    /\ sessions = <<>>
    /\ resp = NoResp
    /\ web = NoWeb

\* --------------------------------------------------------- the environment
\* What an environment step does to the observations of the last sweep.
EnvReset ==
    /\ outcome' = "none"
    /\ summary' = ZeroCounts
    /\ status' = NoStatus
    /\ lastAdd' = {}
    /\ result' = NoResult
    /\ report' = NoReport
    /\ interrupted' = NoPath
    /\ UNCHANGED <<collection, pc, todo, cur, index, counts, collAtStart,
                   embedCalls, loaded, appVars>>

\* A file is created, or modified (its size or modification time changes).
WriteFile(p, s) ==
    /\ pc = "idle"
    /\ dirExists
    /\ p \notin changed
    /\ files[p] # s
    /\ files' = [files EXCEPT ![p] = s]
    /\ changed' = changed \cup {p}
    /\ UNCHANGED <<recordFile, dirty, dirExists>>
    /\ EnvReset

RemoveFile(p) ==
    /\ pc = "idle"
    /\ p \notin changed
    /\ files[p] # Absent
    /\ files' = [files EXCEPT ![p] = Absent]
    /\ changed' = changed \cup {p}
    /\ UNCHANGED <<recordFile, dirty, dirExists>>
    /\ EnvReset

\* DATA_DIR is removed with everything in it (os.walk of a path that does not
\* exist yields no file).
RemoveDir ==
    /\ pc = "idle"
    /\ dirExists
    /\ dirExists' = FALSE
    /\ files' = [p \in AllPaths |-> Absent]
    /\ changed' = changed \cup {p \in SupportedPaths : files[p] # Absent}
    /\ UNCHANGED <<recordFile, dirty>>
    /\ EnvReset

\* DATA_DIR is created again, holding the one file of another kind.
RestoreDir ==
    /\ pc = "idle"
    /\ ~dirExists
    /\ dirExists' = TRUE
    /\ files' = [p \in AllPaths |-> IF p \in SupportedPaths THEN Absent ELSE 1]
    /\ UNCHANGED <<recordFile, changed, dirty>>
    /\ EnvReset

\* The sidecar file is deleted (map empty), or its text is damaged so that it
\* is not JSON (map: what the damaged text still holds).
LoseRecord(how) ==
    /\ pc = "idle"
    /\ recordFile.state = "ok"
    /\ recordFile' = [state |-> how,
                      map |-> IF how = "corrupt" THEN recordFile.map ELSE EmptyMap]
    /\ dirty' = TRUE
    /\ UNCHANGED <<files, changed, dirExists>>
    /\ EnvReset

\* ------------------------------------------------------------ the sweep
\* The load trusting whatever the file still holds.
_load_index_unchecked(rf) == rf.map

\* _load_index: {} when the file is missing or json.load raises
_load_index(rf) == IF rf.state = "ok" THEN rf.map ELSE EmptyMap

_save_index(mapping) == [state |-> "ok", map |-> mapping]

\* The test with the recorded fingerprint compared to the hash of the path
\* alone (what file_fingerprint gives when os.stat fails).
UnchangedPathOnly(old, fp) == old # None /\ old.fingerprint = <<fp[1]>>

\* old and old.get("fingerprint") == fp
Unchanged(old, fp) == old # None /\ old.fingerprint = fp

\* _delete_by_doc_id: calls get_embedding("a") for a dummy query, deletes
\* nothing, swallows every exception.
_delete_by_doc_id(coll, doc_id) == coll

\* collection.add when it accepts the batch: rows under a new id are stored,
\* a row under an id already stored is dropped.
CollectionAdd(coll, rows) == coll \cup {r \in rows : r.id \notin Ids(coll)}

Entry(fp, chunks) == [fingerprint |-> fp, chunks |-> Len(chunks)]

Summary(c) == c

StartSweep ==
    /\ pc = "idle"
    /\ index' = _load_index(recordFile)
    /\ counts' = ZeroCounts
    /\ todo' = {p \in AllPaths : files[p] # Absent}
    /\ pc' = "walking"
    /\ outcome' = "running"
    /\ summary' = ZeroCounts
    /\ status' = NoStatus
    /\ lastAdd' = {}
    /\ collAtStart' = collection
    /\ result' = NoResult
    /\ embedCalls' = 0
    /\ report' = NoReport
    /\ UNCHANGED <<files, collection, recordFile, cur, changed, dirty,
                   dirExists, loaded, appVars, interrupted>>

\* What every step of the walk leaves alone.
WalkFrame ==
    UNCHANGED <<files, recordFile, summary, changed, dirty, collAtStart, outcome,
                dirExists, report, loaded, appVars, interrupted>>

\* ext not in SUPPORTED_EXTS: continue
SkipUnsupported(p) ==
    /\ pc = "walking"
    /\ p \in todo
    /\ Splitext(p) \notin SUPPORTED_EXTS
    /\ todo' = todo \ {p}
    /\ lastAdd' = {}
    /\ result' = NoResult
    /\ UNCHANGED <<collection, pc, cur, index, counts, status, embedCalls>>
    /\ WalkFrame

\* The unchanged branch without its continue: the file is counted as skipped
\* and then ingested as an updated one.
SkipUnchangedFallsThrough(p) ==
    /\ pc = "walking"
    /\ p \in todo
    /\ Splitext(p) \in SUPPORTED_EXTS
    /\ Unchanged(index[p], file_fingerprint(p, files[p]))
    /\ todo' = todo \ {p}
    /\ counts' = [counts EXCEPT !.skipped = @ + 1]
    /\ status' = [status EXCEPT ![p] = "skipped"]
    /\ cur' = p
    /\ pc' = IF FileChunks(p, files[p]) = <<>> THEN "walking" ELSE "delete"
    /\ lastAdd' = {}
    /\ result' = NoResult
    /\ UNCHANGED <<collection, index, embedCalls>>
    /\ WalkFrame

\* unchanged fingerprint: skipped += 1; continue
SkipUnchanged(p) ==
    /\ pc = "walking"
    /\ p \in todo
    /\ Splitext(p) \in SUPPORTED_EXTS
    /\ Unchanged(index[p], file_fingerprint(p, files[p]))
    /\ todo' = todo \ {p}
    /\ counts' = [counts EXCEPT !.skipped = @ + 1]
    /\ status' = [status EXCEPT ![p] = "skipped"]
    /\ lastAdd' = {}
    /\ result' = NoResult
    /\ UNCHANGED <<collection, pc, cur, index, embedCalls>>
    /\ WalkFrame

\* The skip with the record advanced to the fingerprint that gave no text.
SkipEmptyAdvances(p) ==
    /\ pc = "walking"
    /\ p \in todo
    /\ Splitext(p) \in SUPPORTED_EXTS
    /\ ~Unchanged(index[p], file_fingerprint(p, files[p]))
    /\ FileChunks(p, files[p]) = <<>>
    /\ todo' = todo \ {p}
    /\ counts' = [counts EXCEPT !.skipped = @ + 1]
    /\ status' = [status EXCEPT ![p] = "skipped"]
    /\ index' = [index EXCEPT ![p] = Entry(file_fingerprint(p, files[p]), <<>>)]
    /\ lastAdd' = {}
    /\ result' = NoResult
    /\ UNCHANGED <<collection, pc, cur, embedCalls>>
    /\ WalkFrame

\* The skip of a file without text that forgets to count it.
SkipEmptyUncounted(p) ==
    /\ pc = "walking"
    /\ p \in todo
    /\ Splitext(p) \in SUPPORTED_EXTS
    /\ ~Unchanged(index[p], file_fingerprint(p, files[p]))
    /\ FileChunks(p, files[p]) = <<>>
    /\ todo' = todo \ {p}
    /\ lastAdd' = {}
    /\ result' = NoResult
    /\ UNCHANGED <<collection, pc, cur, index, embedCalls, counts, status>>
    /\ WalkFrame

\* not blocks, or not chunks: skipped += 1; continue
SkipEmpty(p) ==
    /\ pc = "walking"
    /\ p \in todo
    /\ Splitext(p) \in SUPPORTED_EXTS
    /\ ~Unchanged(index[p], file_fingerprint(p, files[p]))
    /\ FileChunks(p, files[p]) = <<>>
    /\ todo' = todo \ {p}
    /\ counts' = [counts EXCEPT !.skipped = @ + 1]
    /\ status' = [status EXCEPT ![p] = "skipped"]
    /\ lastAdd' = {}
    /\ result' = NoResult
    /\ UNCHANGED <<collection, pc, cur, index, embedCalls>>
    /\ WalkFrame

\* The classification with the file's new record entry saved to the record
\* file at once, before the delete and the add.
BeginIngestSavesRecord(p) ==
    /\ pc = "walking"
    /\ p \in todo
    /\ Splitext(p) \in SUPPORTED_EXTS
    /\ ~Unchanged(index[p], file_fingerprint(p, files[p]))
    /\ FileChunks(p, files[p]) # <<>>
    /\ todo' = todo \ {p}
    /\ cur' = p
    /\ IF index[p] # None
       THEN /\ counts' = [counts EXCEPT !.updated_docs = @ + 1]
            /\ status' = [status EXCEPT ![p] = "updated"]
            /\ pc' = "delete"
       ELSE /\ counts' = [counts EXCEPT !.added_docs = @ + 1]
            /\ status' = [status EXCEPT ![p] = "added"]
            /\ pc' = "embed"
    /\ recordFile' = _save_index([_load_index(recordFile) EXCEPT ![p] =
                          Entry(file_fingerprint(p, files[p]), FileChunks(p, files[p]))])
    /\ lastAdd' = {}
    /\ result' = NoResult
    /\ UNCHANGED <<collection, index, embedCalls, files, summary, changed, dirty,
                   collAtStart, outcome, dirExists, report, loaded, appVars, interrupted>>

\* chunks exist: count the file as updated (then delete) or as added
BeginIngest(p) ==
    /\ pc = "walking"
    /\ p \in todo
    /\ Splitext(p) \in SUPPORTED_EXTS
    /\ ~Unchanged(index[p], file_fingerprint(p, files[p]))
    /\ FileChunks(p, files[p]) # <<>>
    /\ todo' = todo \ {p}
    /\ cur' = p
    /\ IF index[p] # None
       THEN /\ counts' = [counts EXCEPT !.updated_docs = @ + 1]
            /\ status' = [status EXCEPT ![p] = "updated"]
            /\ pc' = "delete"
       ELSE /\ counts' = [counts EXCEPT !.added_docs = @ + 1]
            /\ status' = [status EXCEPT ![p] = "added"]
            /\ pc' = "embed"
    /\ lastAdd' = {}
    /\ result' = NoResult
    /\ UNCHANGED <<collection, index, embedCalls>>
    /\ WalkFrame

\* self._delete_by_doc_id(old.get("fingerprint"))
DeleteStep ==
    /\ pc = "delete"
    /\ collection' = _delete_by_doc_id(collection, index[cur].fingerprint)
    /\ pc' = "embed"
    /\ embedCalls' = embedCalls + 1
    /\ lastAdd' = {}
    /\ result' = NoResult
    /\ UNCHANGED <<todo, cur, index, counts, status>>
    /\ WalkFrame

\* every get_embedding returns and collection.add accepts the batch
EmbedAndAdd ==
    /\ pc = "embed"
    /\ LET fp == file_fingerprint(cur, files[cur])
           chunks == FileChunks(cur, files[cur])
           rows == Rows(fp, chunks)
       IN  /\ collection' = CollectionAdd(collection, rows)
           /\ lastAdd' = Ids(rows)
           /\ counts' = [counts EXCEPT !.added_chunks = @ + Len(chunks)]
           /\ index' = [index EXCEPT ![cur] = Entry(fp, chunks)]
           /\ embedCalls' = embedCalls + Len(chunks)
    /\ pc' = "walking"
    /\ cur' = NoPath
    /\ result' = NoResult
    /\ UNCHANGED <<todo, status>>
    /\ WalkFrame

\* The exception leaves ingest_directory: nothing is saved, nothing returned.
Abort ==
    /\ pc' = "idle"
    /\ cur' = NoPath
    /\ todo' = {}
    /\ index' = EmptyMap
    /\ counts' = ZeroCounts
    /\ outcome' = "raised"
    /\ changed' = {}
    /\ dirty' = TRUE
    /\ collAtStart' = {}
    /\ result' = NoResult
    /\ embedCalls' = 0
    /\ interrupted' = NoPath
    /\ UNCHANGED <<files, collection, recordFile, summary, status, dirExists,
                   report, loaded, appVars>>

\* get_embedding raises for a chunk of the file
EmbedRaises ==
    /\ pc = "embed"
    /\ lastAdd' = {}
    /\ Abort

\* collection.add rejects a batch that holds an id already stored
AddRejects ==
    /\ pc = "embed"
    /\ LET rows == Rows(file_fingerprint(cur, files[cur]), FileChunks(cur, files[cur]))
       IN  /\ Ids(rows) \cap Ids(collection) # {}
           /\ lastAdd' = Ids(rows)
    /\ Abort

\* The return that first drops the record entries of the files that are no
\* longer in the corpus.
FinishSweepPrunes ==
    /\ pc = "walking"
    /\ todo = {}
    /\ recordFile' = _save_index([p \in AllPaths |->
                                    IF files[p] = Absent THEN None ELSE index[p]])
    /\ summary' = Summary(counts)
    /\ outcome' = "returned"
    /\ pc' = "idle"
    /\ index' = EmptyMap
    /\ counts' = ZeroCounts
    /\ changed' = {}
    /\ dirty' = FALSE
    /\ collAtStart' = {}
    /\ lastAdd' = {}
    /\ result' = NoResult
    /\ embedCalls' = 0
    /\ interrupted' = NoPath
    /\ UNCHANGED <<files, collection, cur, status, todo, dirExists, report, loaded, appVars>>

\* self._save_index(index); return the summary
FinishSweep ==
    /\ pc = "walking"
    /\ todo = {}
    /\ recordFile' = _save_index(index)
    /\ summary' = Summary(counts)
    /\ outcome' = "returned"
    /\ pc' = "idle"
    /\ index' = EmptyMap
    /\ counts' = ZeroCounts
    /\ changed' = {}
    /\ dirty' = FALSE
    /\ collAtStart' = {}
    /\ lastAdd' = {}
    /\ result' = NoResult
    /\ embedCalls' = 0
    /\ interrupted' = NoPath
    /\ UNCHANGED <<files, collection, cur, status, todo, dirExists, report, loaded, appVars>>

\* The process dies inside _save_index, after open(path, "w") has truncated
\* the file and before json.dump has written all of the new map.
CrashInSave ==
    /\ pc = "walking"
    /\ todo = {}
    /\ recordFile' = [state |-> "corrupt", map |-> index]
    /\ outcome' = "crashed"
    /\ pc' = "idle"
    /\ index' = EmptyMap
    /\ counts' = ZeroCounts
    /\ changed' = {}
    /\ dirty' = TRUE
    /\ collAtStart' = {}
    /\ lastAdd' = {}
    /\ result' = NoResult
    /\ embedCalls' = 0
    /\ interrupted' = NoPath
    /\ UNCHANGED <<files, collection, cur, status, todo, summary, dirExists,
                   report, loaded, appVars>>

\* The process dies after _delete_by_doc_id returned for an updated file and
\* before collection.add: nothing of the sweep's index dict is saved.
CrashBeforeAdd ==
    /\ pc = "embed"
    /\ status[cur] = "updated"
    /\ interrupted' = cur
    /\ outcome' = "crashed"
    /\ pc' = "idle"
    /\ cur' = NoPath
    /\ todo' = {}
    /\ index' = EmptyMap
    /\ counts' = ZeroCounts
    /\ changed' = {}
    /\ dirty' = TRUE
    /\ collAtStart' = {}
    /\ lastAdd' = {}
    /\ result' = NoResult
    /\ embedCalls' = 0
    /\ UNCHANGED <<files, collection, recordFile, summary, status, dirExists,
                   report, loaded, appVars>>

\* --------------------------------------------------------- ingest.py main
\* The methods of ChromaVectorStore.
Methods ==
    {"_get_or_create_collection", "_existing_ids", "_load_index", "_save_index",
     "ingest_directory", "_delete_by_doc_id", "similarity_search"}

\* dict.get(key, 0)
Get(d, key) == IF key \in DOMAIN d THEN d[key] ELSE 0

\* The three summary lines main logs for the dict a sweep returned.
MainReport(s) ==
    [level |-> "info", added |-> Get(s, "added"), updated |-> Get(s, "updated"),
     skipped |-> Get(s, "skipped")]

\* main(): DATA_DIR missing: two error lines and return.  Otherwise the call
\* vector_store.ingest_directory_stateful(DATA_DIR) names no method of
\* ChromaVectorStore: the AttributeError is caught and logged as critical,
\* no sweep runs and no summary is logged.
Main ==
    /\ pc = "idle"
    /\ "ingest_directory_stateful" \notin Methods
    /\ report' = [NoReport EXCEPT !.level = IF dirExists THEN "critical" ELSE "error"]
    /\ result' = NoResult
    /\ interrupted' = NoPath
    /\ UNCHANGED <<files, collection, recordFile, pc, todo, cur, index, counts,
                   outcome, summary, status, lastAdd, changed, dirty, collAtStart,
                   dirExists, embedCalls, loaded, appVars>>

\* ------------------------------------------------------------- retrieval
\* The queries put to the store, and the top_k values asked for.
Queries == {<<"x">>, <<"w">>}

TopKs == 1..MaxTopK

\* openai_service.get_embedding: the oracle, a fixed map from text to a point.
get_embedding(text) ==
    CASE text[1] = "x" -> 0
      [] text[1] = "y" -> 1
      [] text[1] = "z" -> 3
      [] OTHER -> 4

Abs(n) == IF n < 0 THEN 0 - n ELSE n

\* Similarity of two embeddings in thirds: 3 is identical, 0 is unrelated.
Similarity(e1, e2) == IF Abs(e1 - e2) > 3 THEN 0 ELSE 3 - Abs(e1 - e2)

Score(emb, row) == Similarity(emb, get_embedding(row.text))

\* collection.query(query_embeddings=[emb], n_results=n): the n nearest rows,
\* best first.
RECURSIVE CollectionQuery(_, _, _)
CollectionQuery(coll, emb, n) ==
    IF n = 0 \/ coll = {} THEN <<>>
    ELSE LET best == CHOOSE v \in coll : \A w \in coll : Score(emb, v) >= Score(emb, w)
         IN  <<best>> \o CollectionQuery(coll \ {best}, emb, n - 1)

\* InternalVectorAgent's threshold, config MIN_SIMILARITY_THRESHOLD, in thirds.
MIN_SIMILARITY_THRESHOLD == 2

\* The search asking the collection for the oversampled candidate count and
\* returning every candidate.
similarity_search_oversampled(coll, query, top_k) ==
    LET emb == get_embedding(query)
        res == CollectionQuery(coll, emb, IF top_k * 5 > 20 THEN top_k * 5 ELSE 20)
    IN  [i \in 1..Len(res) |-> [text |-> res[i].text, metadata |-> res[i].metadata]]

\* The search returning the rows of the answer last to first.
similarity_search_reversed(coll, query, top_k) ==
    LET emb == get_embedding(query)
        res == CollectionQuery(coll, emb, top_k)
    IN  [i \in 1..Len(res) |-> [text |-> res[Len(res) + 1 - i].text,
                                 metadata |-> res[Len(res) + 1 - i].metadata]]

\* The n_results similarity_search passes to collection.query
n_results(top_k) == top_k

\* ChromaVectorStore.similarity_search(query, top_k)
similarity_search(coll, query, top_k) ==
    LET emb == get_embedding(query)
        res == CollectionQuery(coll, emb, n_results(top_k))
    IN  [i \in 1..Len(res) |-> [text |-> res[i].text, metadata |-> res[i].metadata]]

\* What a retrieval step leaves alone.
CallFrame ==
    /\ report' = NoReport
    /\ interrupted' = NoPath
    /\ UNCHANGED <<files, collection, recordFile, pc, todo, cur, index, counts,
                   outcome, summary, status, lastAdd, changed, dirty, collAtStart,
                   dirExists, embedCalls, loaded, appVars>>

\* store.similarity_search(query, top_k) returns
SimilaritySearch(q, k) ==
    /\ pc = "idle"
    /\ result' = [call |-> "search", query |-> q, top_k |-> k,
                  n_results |-> n_results(k), raised |-> FALSE,
                  out |-> similarity_search(collection, q, k)]
    /\ CallFrame

\* get_embedding or collection.query raises inside similarity_search
SearchRaises ==
    /\ pc = "idle"
    /\ result' = [call |-> "search", query |-> <<>>, top_k |-> 0, n_results |-> 0,
                  raised |-> TRUE, out |-> <<>>]
    /\ CallFrame

\* InternalVectorAgent.retrieve: the call passes min_score, a keyword that
\* similarity_search does not take, so the call raises TypeError.
Retrieve(q, k) ==
    /\ pc = "idle"
    /\ q \in Queries /\ k \in TopKs
    /\ result' = [call |-> "retrieve", query |-> <<>>, top_k |-> 0, n_results |-> 0,
                  raised |-> TRUE, out |-> <<>>]
    /\ CallFrame

Next ==
    \/ \E p \in SupportedPaths, s \in Stamps : WriteFile(p, s)
    \/ \E p \in SupportedPaths : RemoveFile(p)
    \/ \E how \in {"missing", "corrupt"} : LoseRecord(how)
    \/ RemoveDir
    \/ RestoreDir
    \/ StartSweep
    \/ \E p \in AllPaths : SkipUnsupported(p)
    \/ \E p \in AllPaths : SkipUnchanged(p)
    \/ \E p \in AllPaths : SkipEmpty(p)
    \/ \E p \in AllPaths : BeginIngest(p)
    \/ DeleteStep
    \/ EmbedAndAdd
    \/ EmbedRaises
    \/ AddRejects
    \/ FinishSweep
    \/ CrashInSave
    \/ CrashBeforeAdd
    \/ Main
    \/ \E q \in Queries, k \in TopKs : SimilaritySearch(q, k)
    \/ SearchRaises
    \/ \E q \in Queries, k \in TopKs : Retrieve(q, k)

Spec == Init /\ [][Next]_vars

\* ------------------------------------------------------------ the loader
\* The texts a page of a file may hold, and the files of up to MaxPages pages.
PageTexts == {<<>>, <<"x">>, <<"y", "z">>, Damaged}

FileContents == UNION {[1..n -> PageTexts] : n \in 0..MaxPages}

\* A fresh store over an empty corpus directory; nothing loaded yet.
InitLoad ==
    /\ files = [p \in AllPaths |-> Absent]
    /\ collection = {}
    /\ recordFile = [state |-> "missing", map |-> EmptyMap]
    /\ pc = "idle"
    /\ todo = {}
    /\ cur = NoPath
    /\ index = EmptyMap
    /\ counts = ZeroCounts
    /\ outcome = "none"
    /\ summary = ZeroCounts
    /\ status = NoStatus
    /\ lastAdd = {}
    /\ changed = {}
    /\ dirty = TRUE
    /\ collAtStart = {}
    /\ result = NoResult
    /\ dirExists = TRUE
    /\ embedCalls = 0
    /\ report = NoReport
    /\ loaded = NoLoad
    /\ interrupted = NoPath
    /\ sessions = <<>>
    /\ resp = NoResp
    /\ web = NoWeb

\* load_file_blocks(path) on a file with the given pages: the loaders catch
\* every exception and hold no logging call.
LoadFile(path, pages) ==
    /\ loaded' = [path |-> path, pages |-> pages, raised |-> FALSE, logged |-> FALSE,
                  blocks |-> load_file_blocks(path, pages)]
    /\ UNCHANGED <<files, collection, recordFile, pc, todo, cur, index, counts,
                   outcome, summary, status, lastAdd, changed, dirty, collAtStart,
                   result, dirExists, embedCalls, report, interrupted, appVars>>

NextLoad == \E path \in AllPaths, pages \in FileContents : LoadFile(path, pages)

SpecLoad == InitLoad /\ [][NextLoad]_vars

\* ------------------------------------------------- the web application
\* steps = plan['steps'][:6]
StepCap == 6

StepKinds == {"q", "blank", "bad"}

\* The step lists of a request: up to MaxSteps steps, of which at most
\* MaxOdd are not a mapping with a query ("blank": a mapping whose query is
\* missing or blank, "bad": not a mapping).
StepLists ==
    {s \in UNION {[1..n -> StepKinds] : n \in 0..MaxSteps} :
        Cardinality({i \in DOMAIN s : s[i] # "q"}) <= MaxOdd}

\* plan['steps']: a list, or a value that cannot be sliced.
StepsValues ==
    {[list |-> TRUE, items |-> s] : s \in StepLists} \cup {[list |-> FALSE, items |-> <<>>]}

\* The mappings a request body may hold as its plan.
Dicts ==
    {d \in {[kind |-> "dict", valid |-> FALSE, inner |-> "none", topic |-> t,
             has_steps |-> h, steps |-> sv] :
                t \in BOOLEAN, h \in BOOLEAN, sv \in StepsValues} :
        (d.topic /\ d.has_steps) \/ d.steps = NoSteps}

\* The strings a request body may hold as its plan: one that is not JSON, and
\* those that decode to a list or to a mapping with at most one step.
Strings ==
    {[NoPlan EXCEPT !.kind = "str"], [NoPlan EXCEPT !.kind = "str", !.valid = TRUE, !.inner = "list"]}
        \cup {[d EXCEPT !.kind = "str", !.valid = TRUE, !.inner = "dict"] :
                 d \in {e \in Dicts : Len(e.steps.items) <= 1}}

\* data.get('plan')
Bodies == {NoPlan, [NoPlan EXCEPT !.kind = "list"]} \cup Dicts \cup Strings

\* json.loads of a string that is valid JSON
json_loads(p) == [p EXCEPT !.kind = p.inner, !.valid = FALSE, !.inner = "none"]

\* What planner.generate_research_plan returns: a mapping with topic and steps.
PlannerPlan ==
    [kind |-> "dict", valid |-> FALSE, inner |-> "none", topic |-> TRUE,
     has_steps |-> TRUE, steps |-> [list |-> TRUE, items |-> <<"q", "q">>]]

\* INTERNAL_AGENT.retrieve(query): the call of similarity_search with the
\* keyword min_score raises TypeError (see Retrieve).
AgentRetrieve == [raised |-> TRUE, out |-> 0]

\* The two placeholder entries web_search builds in its except clause.
fallback_sources ==
    << [placeholder |-> TRUE, snippet |-> TRUE], [placeholder |-> TRUE, snippet |-> TRUE] >>

\* The entry web_search appends for a hit that has a title and a href.
WebEntry(hit) == [placeholder |-> FALSE, snippet |-> hit = "full"]

RECURSIVE KeptHits(_)
KeptHits(hits) ==
    IF hits = <<>> THEN <<>>
    ELSE (IF Head(hits) = "nohref" THEN <<>> ELSE <<WebEntry(Head(hits))>>)
         \o KeptHits(Tail(hits))

\* web_search(query): hits is what DDGS().text gives (a hit with title, href
\* and body, "full", one with an empty body, "nobody", one without href,
\* "nohref"), fails says that the client raises.
web_search(hits, fails) == IF fails THEN fallback_sources ELSE KeptHits(hits)

\* What the search client does during a request.
WebEnvs == {[hits |-> <<"full">>, fails |-> FALSE], [hits |-> <<>>, fails |-> TRUE]}

Min(a, b) == IF a < b THEN a ELSE b

\* The loop over the steps: step.get outside the try, retrieval and web
\* search inside it, except Exception: continue.
RECURSIVE RunSteps(_, _, _, _)
RunSteps(steps, i, acc, env) ==
    IF i > Len(steps) \/ acc.aborted THEN acc
    ELSE IF steps[i] = "bad" THEN [acc EXCEPT !.aborted = TRUE]
    ELSE IF steps[i] = "blank" THEN RunSteps(steps, i + 1, acc, env)
    ELSE LET r == AgentRetrieve
             a1 == [acc EXCEPT !.log = Append(@, <<"retrieve", i>>)]
         IN  IF r.raised THEN RunSteps(steps, i + 1, a1, env)
             ELSE LET w == web_search(env.hits, env.fails)
                      a2 == [a1 EXCEPT
                               !.log = Append(@, <<"web", i>>),
                               !.sources = @ + r.out
                                   + Cardinality({k \in 1..Len(w) : w[k].snippet})]
                  IN  RunSteps(steps, i + 1, a2, env)

\* if not plan
Truthy(p) == p.kind # "none"

\* execute_plan after get_session: the status of the response (500: an
\* exception left the handler), the plan used, the calls made in order, the
\* number of sources collected, and whether the report was synthesized.
execute_plan(plan_from_session, plan_from_body, env) ==
    LET plan0 == IF Truthy(plan_from_body) THEN plan_from_body ELSE plan_from_session
        out == [status |-> 0, plan |-> plan0,
                from_session |-> ~Truthy(plan_from_body) /\ Truthy(plan_from_session),
                log |-> <<>>, sources |-> 0, synthesized |-> FALSE]
    IN  IF ~Truthy(plan0) THEN [out EXCEPT !.status = 404]
        ELSE IF plan0.kind = "str" /\ ~plan0.valid THEN [out EXCEPT !.status = 400]
        ELSE LET plan == IF plan0.kind = "str" THEN json_loads(plan0) ELSE plan0
             IN  IF plan.kind # "dict" \/ ~plan.has_steps \/ ~plan.topic
                 THEN [out EXCEPT !.status = 422]
                 ELSE IF ~plan.steps.list THEN [out EXCEPT !.status = 500]
                 ELSE LET steps == SubSeq(plan.steps.items, 1,
                                          Min(StepCap, Len(plan.steps.items)))
                          acc == RunSteps(steps, 1,
                                          [log |-> <<>>, sources |-> 0, aborted |-> FALSE], env)
                      IN  [out EXCEPT !.status = IF acc.aborted THEN 500 ELSE 200,
                                      !.log = acc.log,
                                      !.sources = acc.sources,
                                      !.synthesized = ~acc.aborted]

\* request.cookies.get("session_id"): 0 is no cookie, -1 an id the server
\* never gave out.
Cookies == {0, -1} \cup (1..MaxSessions)

\* uuid.uuid4(): an id that is not a key of the map
uuid4(ss) == Len(ss) + 1

\* The lookup creating a session for every request, whatever its cookie.
get_session_always_new(ss, cookie) ==
    [sid |-> uuid4(ss), sessions |-> Append(ss, EmptySession)]

\* SessionManager.get_session
get_session(ss, cookie) ==
    IF cookie # 0 /\ cookie \in DOMAIN ss
    THEN [sid |-> cookie, sessions |-> ss]
    ELSE [sid |-> uuid4(ss), sessions |-> Append(ss, EmptySession)]

\* POST /plan/
PlanRequest(cookie, hasTopic) ==
    /\ resp = NoResp
    /\ web = NoWeb
    /\ IF ~hasTopic
       THEN /\ sessions' = sessions
            /\ resp' = [NoResp EXCEPT !.endpoint = "plan", !.cookie = cookie, !.status = 400]
       ELSE LET g == get_session(sessions, cookie)
            IN  /\ Len(g.sessions) <= MaxSessions
                /\ sessions' = [g.sessions EXCEPT ![g.sid].plan = PlannerPlan]
                /\ resp' = [NoResp EXCEPT !.endpoint = "plan", !.cookie = cookie,
                                          !.sid = g.sid, !.status = 200,
                                          !.plan = PlannerPlan]
    /\ UNCHANGED <<web, storeVars>>

\* POST /execute/
ExecuteRequest(cookie, body, env) ==
    /\ resp = NoResp
    /\ web = NoWeb
    /\ LET g == get_session(sessions, cookie)
           r == execute_plan(g.sessions[g.sid].plan, body, env)
       IN  /\ Len(g.sessions) <= MaxSessions
           /\ sessions' = g.sessions
           /\ resp' = [endpoint |-> "execute", cookie |-> cookie, sid |-> g.sid,
                       status |-> r.status, plan |-> r.plan,
                       from_session |-> r.from_session, log |-> r.log,
                       sources |-> r.sources, synthesized |-> r.synthesized]
    /\ UNCHANGED <<web, storeVars>>

\* A direct call of web_search, as the planner's preview makes it.
WebSearch(hits, fails) ==
    /\ resp = NoResp
    /\ web = NoWeb
    /\ web' = [called |-> TRUE, failed |-> fails, raised |-> FALSE,
               out |-> web_search(hits, fails)]
    /\ UNCHANGED <<sessions, resp, storeVars>>

\* The response, or the result of the call, has been taken.
Done ==
    /\ resp # NoResp \/ web # NoWeb
    /\ resp' = NoResp
    /\ web' = NoWeb
    /\ UNCHANGED <<sessions, storeVars>>

WebHits == UNION {[1..n -> {"full", "nobody", "nohref"}] : n \in 0..2}

NextApp ==
    \/ \E cookie \in Cookies, hasTopic \in BOOLEAN : PlanRequest(cookie, hasTopic)
    \/ \E cookie \in Cookies, body \in Bodies, env \in WebEnvs :
          ExecuteRequest(cookie, body, env)
    \/ \E hits \in WebHits, fails \in BOOLEAN : WebSearch(hits, fails)
    \/ Done

SpecApp == InitLoad /\ [][NextApp]_vars

\* ====================================================== ingestion claims
\* The rows of the collection that belong to a file.
VectorsOf(coll, p) == {v \in coll : v.metadata.file_path = p}

\* The rows collection.add is given for the file at path under fingerprint fp.
RowsAt(p, fp) == Rows(fp, FileChunks(p, fp[2]))

SupportedPresent == {p \in SupportedPaths : files[p] # Absent}

\* A sweep has just returned and nothing has happened since.
SweepReturned == pc = "idle" /\ outcome = "returned"

\* This step is the return of a sweep.
FinishStep == pc = "walking" /\ pc' = "idle" /\ outcome' = "returned"

\* This step is the death of the process in the middle of a sweep.
CrashStep == pc # "idle" /\ outcome' = "crashed"

\* The index holds, for every path, exactly the rows of the fingerprint the
\* record holds for it (none when the record holds none).
Consistent(coll, rec) ==
    \A p \in AllPaths :
        VectorsOf(coll, p) =
            IF rec[p] # None THEN RowsAt(p, rec[p].fingerprint) ELSE {}

\* C1: a sweep that starts with the index holding exactly the chunks of the
\* recorded fingerprints and runs to completion leaves, for every path whose
\* record holds fingerprint F, exactly the chunks of the file's content at F
\* in the index: no row of an earlier fingerprint remains after an update.
C1_IndexMatchesRecord ==
    [][(FinishStep /\ Consistent(collAtStart, _load_index(recordFile))) =>
          \A p \in AllPaths :
              recordFile'.map[p] # None =>
                  VectorsOf(collection', p) = RowsAt(p, recordFile'.map[p].fingerprint)]_vars

\* The sweep in progress started from the state a completed sweep left.
QuietSweep == pc # "idle" /\ ~dirty /\ changed = {}

\* C2: a sweep over a corpus that has not changed since the last completed
\* sweep issues no add and no delete, leaves the index and the record file as
\* they were, and returns zero added, zero updated and every supported file
\* skipped (the process is not killed while the sweep runs).
C2_Idempotent ==
    [][(QuietSweep /\ ~CrashStep) =>
          /\ collection' = collection
          /\ recordFile' = recordFile
          /\ lastAdd' = {}
          /\ pc' \notin {"delete", "embed"}
          /\ pc' = "idle" =>
                /\ outcome' = "returned"
                /\ summary'.added_docs = 0
                /\ summary'.updated_docs = 0
                /\ summary'.added_chunks = 0
                /\ summary'.skipped = Cardinality(SupportedPresent)]_vars

\* C2 witness: a second sweep over an unchanged corpus of two supported files,
\* one of them indexed, is about to return with both skipped.
C2_Witness ==
    /\ QuietSweep
    /\ pc = "walking"
    /\ todo = {}
    /\ counts.skipped = 2
    /\ collection # {}

\* C3: when exactly one previously ingested file changed since the last
\* completed sweep (and still has text), the sweep classifies that file as updated and every other
\* previously ingested file as skipped; afterwards the prior chunks of the
\* changed file are gone, its new chunks are present, and the rows of every
\* other file are as before.
C3_ChangeDetection ==
    [][\A p \in SupportedPaths :
          (/\ FinishStep
           /\ ~dirty
           /\ changed = {p}
           /\ files[p] # Absent
           /\ recordFile.map[p] # None
           /\ recordFile.map[p].fingerprint # file_fingerprint(p, files[p])
           /\ FileChunks(p, files[p]) # <<>>)
          => /\ status[p] = "updated"
             /\ \A q \in SupportedPresent \ {p} :
                   recordFile.map[q] # None => status[q] = "skipped"
             /\ \A v \in collection' :
                   v.metadata.doc_id # recordFile.map[p].fingerprint
             /\ RowsAt(p, file_fingerprint(p, files[p])) \subseteq collection'
             /\ \A q \in AllPaths \ {p} :
                   VectorsOf(collection', q) = VectorsOf(collAtStart, q)]_vars

\* C4: every id handed to collection.add is absent from the collection at the
\* moment of the add.
C4_NoDuplicateAdd == [][lastAdd' \cap Ids(collection) = {}]_vars

\* C5: the record entry of a file changes only when the sweep added the file's
\* rows, and then to the file's current fingerprint; for a file that was
\* skipped the entry the sweep saves is the entry it loaded, and a sweep that
\* fails saves nothing (the process is not killed while the sweep runs).
C5_RecordAdvance ==
    [][/\ FinishStep =>
            \A p \in AllPaths :
                IF status[p] \in {"added", "updated"}
                THEN /\ recordFile'.map[p].fingerprint = file_fingerprint(p, files[p])
                     /\ RowsAt(p, file_fingerprint(p, files[p])) \subseteq collection
                ELSE recordFile'.map[p] = _load_index(recordFile)[p]
       /\ (pc # "idle" /\ ~FinishStep /\ ~CrashStep) => recordFile' = recordFile]_vars

\* C5 witness: a sweep returned in which one file was updated and another,
\* ingested earlier and now without text, was skipped and keeps its old entry.
C5_Witness ==
    /\ SweepReturned
    /\ \E p \in SupportedPaths : status[p] = "updated"
    /\ \E q \in SupportedPaths :
          /\ status[q] = "skipped"
          /\ recordFile.map[q] # None
          /\ recordFile.map[q].fingerprint # file_fingerprint(q, files[q])

\* C6: no exception escapes the sweep.
C6_NoEscape == outcome # "raised"

\* C7: the delete step of the update path removes every row of the file and
\* leaves the rows of every other file as they were.
C7_DeleteRemovesFile ==
    [][(pc = "delete" /\ pc' = "embed") =>
          /\ VectorsOf(collection', cur) = {}
          /\ \A q \in AllPaths \ {cur} :
                VectorsOf(collection', q) = VectorsOf(collection, q)]_vars

\* ====================================================== retrieval claims
\* A call of similarity_search has returned.
Returned == result.call # "none" /\ ~result.raised

\* The similarity of a returned entry to the query of the call.
OutScore(i) ==
    Similarity(get_embedding(result.query), get_embedding(result.out[i].text))

\* The stored rows that reach the threshold for the query of the call.
Clearing ==
    {v \in collection :
        Score(get_embedding(result.query), v) >= MIN_SIMILARITY_THRESHOLD}

\* The stored rows the call did not return.
NotReturned ==
    {v \in collection :
        \A i \in 1..Len(result.out) :
            result.out[i] # [text |-> v.text, metadata |-> v.metadata]}

\* C8: every result of a retrieval call has similarity at least the
\* threshold, and a call that finds no stored chunk at the threshold returns
\* the empty sequence.
C8_Threshold ==
    Returned =>
        /\ \A i \in 1..Len(result.out) : OutScore(i) >= MIN_SIMILARITY_THRESHOLD
        /\ Clearing = {} => result.out = <<>>

\* C9: a retrieval call returns at most top_k results.
C9_AtMostTopK == Len(result.out) <= result.top_k

\* C9 witness: a call returned top_k results from an index holding more rows.
C9_Witness ==
    /\ Returned
    /\ Len(result.out) = result.top_k
    /\ Cardinality(collection) > result.top_k

\* C10: the results of a retrieval call are in order of non-increasing
\* similarity, and when more than top_k stored chunks reach the threshold the
\* call returns exactly top_k results, none scoring below a stored chunk it
\* left out.
C10_RankedTopK ==
    Returned =>
        /\ \A i, j \in 1..Len(result.out) : i < j => OutScore(i) >= OutScore(j)
        /\ Cardinality(Clearing) > result.top_k =>
              /\ Len(result.out) = result.top_k
              /\ \A i, j \in 1..Len(result.out) : i # j => result.out[i] # result.out[j]
              /\ \A i \in 1..Len(result.out) : \A v \in NotReturned :
                    OutScore(i) >= Score(get_embedding(result.query), v)

\* C10 witness: more than top_k stored chunks reach the threshold, the call
\* returned two results of different similarity and left out a chunk that
\* scores lower than its last result.
C10_Witness ==
    /\ Returned
    /\ Cardinality(Clearing) > result.top_k
    /\ Len(result.out) = 2
    /\ OutScore(1) > OutScore(2)
    /\ \E v \in NotReturned :
          Score(get_embedding(result.query), v) < OutScore(2)

\* C11: a retrieval call through the agent against an index that holds no
\* vectors does not raise and returns the empty sequence.
C11_EmptyIndexRetrieve ==
    (result.call = "retrieve" /\ collection = {}) =>
        (~result.raised /\ result.out = <<>>)

\* planner._get_internal_source_titles: result.get("score", 0)
relevance_score(r) == IF "score" \in DOMAIN r THEN r.score ELSE 0

\* C12: every entry a retrieval call returns has the fields text, metadata
\* and score, the score a similarity between 0 and 1 (0 to 3 thirds), and the
\* relevance the planner reads from the entry is that similarity.
C12_ScoreField ==
    Returned =>
        \A i \in 1..Len(result.out) :
            /\ DOMAIN result.out[i] = {"text", "metadata", "score"}
            /\ result.out[i].score \in 0..3
            /\ relevance_score(result.out[i]) = OutScore(i)

\* ================================================ entry point and record
\* C13: a run of ingest.py main over an existing corpus directory logs a
\* summary, and the three numbers main logs for the dict a sweep returned are
\* the numbers of files that sweep added, updated and skipped.
C13_MainReportsCounts ==
    /\ report.level # "critical"
    /\ SweepReturned =>
          /\ MainReport(summary).added = summary.added_docs
          /\ MainReport(summary).updated = summary.updated_docs
          /\ MainReport(summary).skipped = summary.skipped

\* The record file cannot be read as a map.
RecordLost == recordFile.state \in {"missing", "corrupt"}

\* C14: loading a record file that is missing or is not valid JSON yields the
\* empty map, and the sweep that follows treats every supported file as not
\* ingested before: no file is skipped as unchanged, none is updated, and at
\* the return every supported file with text has been added.
C14_LostRecordFullReingest ==
    [][/\ (pc = "idle" /\ pc' = "walking" /\ RecordLost) => index' = EmptyMap
       /\ (pc # "idle" /\ RecordLost) =>
             /\ pc' # "delete"
             /\ \A p \in SupportedPaths :
                   /\ status'[p] # "updated"
                   /\ status'[p] = "skipped" => FileChunks(p, files[p]) = <<>>
       /\ (FinishStep /\ RecordLost) =>
             \A p \in SupportedPresent :
                 FileChunks(p, files[p]) # <<>> => status[p] = "added"]_vars

\* C14 witness: the record file is damaged and still names the current
\* fingerprint of a file; the sweep is about to return having added that file
\* again.
C14_Witness ==
    /\ pc = "walking"
    /\ todo = {}
    /\ recordFile.state = "corrupt"
    /\ \E p \in SupportedPresent :
          /\ recordFile.map[p].fingerprint = file_fingerprint(p, files[p])
          /\ status[p] = "added"

\* C15: when the process dies during a sweep, the save included, a record
\* file that held a complete map holds afterwards that map or the complete
\* map the sweep was saving.
C15_AtomicSave ==
    [][(CrashStep /\ recordFile.state = "ok") =>
          \/ recordFile' = recordFile
          \/ recordFile' = _save_index(index)]_vars

\* C16: a sweep over a corpus directory that does not exist writes neither to
\* the index nor to the record file, and ends by raising to its caller.
C16_MissingDirNoWrite ==
    [][(pc # "idle" /\ ~dirExists /\ ~CrashStep) =>
          /\ collection' = collection
          /\ recordFile' = recordFile
          /\ pc' = "idle" => outcome' = "raised"]_vars

\* ================================================= the sweep as a function
\* The locals of ingest_directory before the walk.
SweepStart(coll, rf) ==
    [coll |-> coll, index |-> _load_index(rf), counts |-> ZeroCounts, raised |-> FALSE]

\* The body of the loop for the file at path p, the files being fs; rejects
\* says whether collection.add raises for a batch with an id already stored.
\* Once an exception has left the loop nothing more is visited.
Visit(s, p, fs, rejects) ==
    IF s.raised \/ Splitext(p) \notin SUPPORTED_EXTS THEN s
    ELSE LET fp == file_fingerprint(p, fs[p])
             old == s.index[p]
             chunks == FileChunks(p, fs[p])
             rows == Rows(fp, chunks)
             kept == IF old # None THEN _delete_by_doc_id(s.coll, old.fingerprint)
                     ELSE s.coll
         IN  IF Unchanged(old, fp) \/ chunks = <<>>
             THEN [s EXCEPT !.counts.skipped = @ + 1]
             ELSE IF rejects /\ Ids(rows) \cap Ids(kept) # {}
             THEN [s EXCEPT !.coll = kept, !.raised = TRUE]
             ELSE [coll |-> CollectionAdd(kept, rows),
                   index |-> [s.index EXCEPT ![p] = Entry(fp, chunks)],
                   counts |-> IF old # None
                              THEN [s.counts EXCEPT !.updated_docs = @ + 1,
                                                    !.added_chunks = @ + Len(chunks)]
                              ELSE [s.counts EXCEPT !.added_docs = @ + 1,
                                                    !.added_chunks = @ + Len(chunks)],
                   raised |-> FALSE]

\* The loop over the files in the order os.walk gives them.
RECURSIVE Walk(_, _, _, _)
Walk(s, order, fs, rejects) ==
    IF order = <<>> THEN s
    ELSE Walk(Visit(s, Head(order), fs, rejects), Tail(order), fs, rejects)

\* What ingest_directory leaves and gives: the index, the record file, and
\* the summary unless it raised.
SweepEnd(s, rf) ==
    [coll |-> s.coll,
     record |-> IF s.raised THEN rf ELSE _save_index(s.index),
     raised |-> s.raised,
     summary |-> IF s.raised THEN ZeroCounts ELSE Summary(s.counts)]

ingest_directory(coll, rf, fs, order, rejects) ==
    SweepEnd(Walk(SweepStart(coll, rf), order, fs, rejects), rf)

\* The orders in which os.walk may give the files of a set.
Orders(S) ==
    {o \in [1..Cardinality(S) -> S] : \A i, j \in DOMAIN o : i # j => o[i] # o[j]}

\* C17: from the same index, record file and files, any two orders of
\* visiting the files give the same final index, the same final record file
\* and the same summary.
C17_OrderIndependent ==
    pc = "idle" =>
        \A rejects \in BOOLEAN :
            \A o1, o2 \in Orders({p \in AllPaths : files[p] # Absent}) :
                ingest_directory(collection, recordFile, files, o1, rejects)
                    = ingest_directory(collection, recordFile, files, o2, rejects)

\* ============================================================ chunk ids
\* The rows the sweep is about to hand to collection.add (pc = "embed").
Batch == Rows(file_fingerprint(cur, files[cur]), FileChunks(cur, files[cur]))

SameTriple(r, v) ==
    /\ r.metadata.file_path = v.metadata.file_path
    /\ r.metadata.page = v.metadata.page
    /\ r.metadata.chunk_index = v.metadata.chunk_index

\* C18: the id of a chunk is a function of the file's fingerprint (path,
\* modification time and size), the page and the chunk index, and of nothing
\* else: a row computed again for a stored chunk of an unchanged file has the
\* stored id, and rows that differ in fingerprint, page or chunk index have
\* different ids.
C18_IdPerFingerprintPageIndex ==
    pc = "embed" =>
        \A r \in Batch : \A v \in collection \cup Batch :
            r.id = v.id <=> (/\ SameTriple(r, v)
                             /\ r.metadata.doc_id = v.metadata.doc_id)

\* C18 witness: the sweep is about to add rows of which one has the id of a
\* stored row (the file was ingested under this fingerprint before) and one
\* has the path, page and chunk index of a stored row of an earlier
\* fingerprint, under another id.
C18_Witness ==
    /\ pc = "embed"
    /\ \E r \in Batch, v \in collection : r.id = v.id
    /\ \E r \in Batch, v \in collection : SameTriple(r, v) /\ r.id # v.id

\* C18 as stated: a row computed on a later sweep for the path, page and
\* chunk index of a stored row has the id of the stored row.
C18_StablePerTriple ==
    pc = "embed" =>
        \A r \in Batch : \A v \in collection : SameTriple(r, v) => r.id = v.id

\* ====================================================== embedding calls
\* C19: a sweep that returns has made exactly as many get_embedding calls as
\* the number of chunks it added, over the added and the updated files.
C19_OneEmbedPerChunk ==
    [][FinishStep => embedCalls = counts.added_chunks]_vars

\* ============================================================ the loader
\* C20: a call of the loader does not raise, and for a file of an unsupported
\* extension and for a damaged or unreadable file it returns no block.
C20_LoaderEmpty ==
    loaded.path # NoPath =>
        /\ ~loaded.raised
        /\ (\/ Splitext(loaded.path) \notin SUPPORTED_EXTS
            \/ \E i \in 1..Len(loaded.pages) : loaded.pages[i] = Damaged)
              => loaded.blocks = <<>>

\* ===================================================== the update path
\* C21: for a file classified as updated, the add of its new rows is entered
\* only from the delete step, and at the add the rows stored under the
\* fingerprint the record held for the file are gone.
C21_DeleteBeforeAdd ==
    [][/\ (pc # "embed" /\ pc' = "embed" /\ status'[cur'] = "updated") => pc = "delete"
       /\ (pc = "embed" /\ pc' = "walking" /\ status[cur] = "updated") =>
             \A v \in collection : v.metadata.doc_id # index[cur].fingerprint]_vars

\* C22: when the process died after the delete and before the add of an
\* updated file, the record file is as it was before the sweep, and the sweep
\* that follows (the file not changed again) does not skip the file: it
\* classifies it as updated again and, when it returns, the file's new rows
\* are in the index.
C22_CrashThenReingest ==
    [][/\ (pc = "embed" /\ interrupted' # NoPath) => recordFile' = recordFile
       /\ (pc # "idle" /\ interrupted # NoPath) =>
             /\ status'[interrupted] # "skipped"
             /\ FinishStep =>
                   /\ status[interrupted] = "updated"
                   /\ RowsAt(interrupted,
                             file_fingerprint(interrupted, files[interrupted]))
                          \subseteq collection']_vars

\* C22 witness: the sweep after such a death is about to return, having
\* classified the interrupted file as updated.
C22_Witness ==
    /\ pc = "walking"
    /\ todo = {}
    /\ interrupted # NoPath
    /\ status[interrupted] = "updated"

\* C22 as stated: the sweep that follows the death treats the file as
\* unchanged and adds nothing.
C22_CrashThenSkipped ==
    [][(FinishStep /\ interrupted # NoPath) =>
          /\ status[interrupted] = "skipped"
          /\ collection' = collAtStart]_vars

\* C23: the step that visits a supported file whose fingerprint is the one
\* the record holds for it makes no embedding call, adds and deletes nothing,
\* leaves the index dict as loaded, counts the file once as skipped and moves
\* on to the next file.
C23_UnchangedNoWork ==
    [][\A p \in SupportedPaths :
          (/\ pc = "walking"
           /\ p \in todo
           /\ p \notin todo'
           /\ Unchanged(index[p], file_fingerprint(p, files[p])))
          => /\ pc' = "walking"
             /\ collection' = collection
             /\ lastAdd' = {}
             /\ embedCalls' = embedCalls
             /\ index' = index
             /\ recordFile' = recordFile
             /\ counts' = [counts EXCEPT !.skipped = @ + 1]
             /\ status'[p] = "skipped"]_vars

\* C23 witness: in a sweep that has made embedding calls for another file, a
\* file with text whose fingerprint is the recorded one has been skipped.
C23_Witness ==
    /\ pc = "walking"
    /\ embedCalls > 0
    /\ \E p \in SupportedPaths :
          /\ status[p] = "skipped"
          /\ FileChunks(p, files[p]) # <<>>
          /\ Unchanged(index[p], file_fingerprint(p, files[p]))

\* ====================================================== candidate count
\* C24: a retrieval call with parameter top_k asks the index for
\* max(top_k * 5, 20) candidates.
C24_CandidateCount ==
    Returned =>
        result.n_results = IF result.top_k * 5 > 20 THEN result.top_k * 5 ELSE 20

\* ------------------------------------------------ claims on the application
\* The plan as the handler uses it: a string of valid JSON decoded.
Decoded(p) == IF p.kind = "str" /\ p.valid THEN json_loads(p) ELSE p

\* No plan, a string that is not JSON, not a mapping with topic and steps,
\* steps that are not a list, or a step that is not a mapping.
Malformed(p) ==
    \/ ~Truthy(p)
    \/ p.kind = "str" /\ ~p.valid
    \/ Decoded(p).kind # "dict"
    \/ ~Decoded(p).topic
    \/ ~Decoded(p).has_steps
    \/ ~Decoded(p).steps.list
    \/ \E i \in DOMAIN Decoded(p).steps.items : Decoded(p).steps.items[i] = "bad"

\* C25: an execute request whose plan is missing or malformed is rejected
\* with a client error (404, 400 or 422) and no retrieval, web search or
\* synthesis is performed for it.
C25_ValidatedBeforeWork ==
    (resp.endpoint = "execute" /\ Malformed(resp.plan)) =>
        /\ resp.status \in {400, 404, 422}
        /\ resp.log = <<>>
        /\ ~resp.synthesized

\* C26: web_search never raises, and when the search client fails it returns
\* an empty list.
C26_FailureGivesEmpty ==
    web.called => /\ ~web.raised
                  /\ web.failed => web.out = <<>>

\* ---------------------------------------------- further claims on the sweep
\* The files the sweep put into the class c.
Counted(c) == {p \in AllPaths : status[p] = c}

C28_UnvisitedKept ==
    [][(pc # "idle" /\ ~CrashStep) =>
          \A p \in AllPaths : files[p] = Absent =>
              /\ VectorsOf(collection', p) = VectorsOf(collection, p)
              /\ recordFile.state = "ok" =>
                    /\ recordFile'.state = "ok"
                    /\ recordFile'.map[p] = recordFile.map[p]]_vars

\* A sweep that ingested one file has returned while another file, ingested
\* earlier and removed since, still has its record entry and its vectors.
C28_Witness ==
    /\ SweepReturned
    /\ summary.added_docs + summary.updated_docs > 0
    /\ \E p \in SupportedPaths :
          /\ files[p] = Absent
          /\ recordFile.state = "ok"
          /\ recordFile.map[p] # None
          /\ VectorsOf(collection, p) # {}

\* The plan passed the three checks of the handler and its steps are a list.
ReachedLoop(p) ==
    /\ Truthy(p)
    /\ ~(p.kind = "str" /\ ~p.valid)
    /\ Decoded(p).kind = "dict"
    /\ Decoded(p).topic
    /\ Decoded(p).has_steps
    /\ Decoded(p).steps.list

\* The calls the claim expects for the steps i..n: one internal retrieval for
\* every step that has a query, in order, and no web search after a
\* retrieval that raised.
RECURSIVE ExpectedLog(_, _, _)
ExpectedLog(items, i, n) ==
    IF i > n THEN <<>>
    ELSE (IF items[i] = "blank" THEN <<>> ELSE << <<"retrieve", i>> >>)
         \o ExpectedLog(items, i + 1, n)

\* C29: an execute request whose plan reaches the loop processes the first
\* six steps in order, a step that raises is left and the next one is taken,
\* and the report is synthesized.
C29_StepFailuresContained ==
    (resp.endpoint = "execute" /\ ReachedLoop(resp.plan)) =>
        /\ resp.status = 200
        /\ resp.synthesized
        /\ resp.log = ExpectedLog(Decoded(resp.plan).steps.items, 1,
                                  Min(StepCap, Len(Decoded(resp.plan).steps.items)))

\* A request that went through get_session has just been answered.
Served == resp = NoResp /\ resp' # NoResp /\ resp'.sid # 0

\* C30: get_session gives the session of the cookie when the cookie is a key
\* of the map and otherwise makes exactly one new session, empty, under an id
\* that was not a key; no step removes a session or changes one other than by
\* the plan endpoint storing its plan in the request's own session; and an
\* execute request is served a plan from the session store only if its cookie
\* is the id of the session that holds this plan.
C30_SessionStore ==
    [][/\ DOMAIN sessions \subseteq DOMAIN sessions'
       /\ \A i \in DOMAIN sessions :
             \/ sessions'[i] = sessions[i]
             \/ /\ resp'.endpoint = "plan"
                /\ resp'.sid = i
                /\ resp'.cookie = i
                /\ sessions'[i] = [sessions[i] EXCEPT !.plan = PlannerPlan]
       /\ Served =>
             IF resp'.cookie \in DOMAIN sessions
             THEN /\ resp'.sid = resp'.cookie
                  /\ DOMAIN sessions' = DOMAIN sessions
             ELSE /\ resp'.sid \notin DOMAIN sessions
                  /\ DOMAIN sessions' = DOMAIN sessions \cup {resp'.sid}
                  /\ sessions'[resp'.sid] =
                        IF resp'.endpoint = "plan"
                        THEN [EmptySession EXCEPT !.plan = PlannerPlan]
                        ELSE EmptySession
       /\ (Served /\ resp'.endpoint = "execute" /\ resp'.from_session) =>
             /\ resp'.cookie \in DOMAIN sessions
             /\ Truthy(sessions[resp'.cookie].plan)
             /\ resp'.plan = sessions[resp'.cookie].plan]_vars

\* With two sessions in the store, an execute request without a plan in its
\* body was served the plan stored in the session of its cookie.
C30_Witness ==
    /\ Len(sessions) = 2
    /\ resp.endpoint = "execute"
    /\ resp.from_session
    /\ resp.status = 200
    /\ resp.sid = resp.cookie
    /\ \E i \in DOMAIN sessions : i # resp.sid /\ ~Truthy(sessions[i].plan)

====
